---- MODULE Spec2Model ----
(***************************************************************************)
(* prometheus-macros (src/src/lib.rs): the generic Opts value, the typed   *)
(* converters TryFrom<Opts> generated by impl_try_from! and                *)
(* impl_try_from_vec!, and the register method and accessors generated by  *)
(* composite_metric!.  The prometheus engine the crate calls into          *)
(* (Desc validation, histogram bucket adjustment, Registry::register,      *)
(* Registry::gather, metric handles) is modelled at the calls the crate    *)
(* makes.                                                                  *)
(*                                                                         *)
(* Option<T> is a sequence of length 0 (None) or 1 (Some).  Bucket         *)
(* boundaries are finite positive values in thousandths, so 1 is 0.001.    *)
(***************************************************************************)
EXTENDS Integers, Sequences, FiniteSets, TLC

VARIABLES opts, conv, decl, heap, registry, container, last, calls

vars == <<opts, conv, decl, heap, registry, container, last, calls>>
convVars == <<opts, conv>>
protoVars == <<decl, heap, registry, container, last, calls>>

\* ---------------------------------------------------------------- bounds
MaxLabels == 2
MaxBucket == 2
MaxFields == 3
MaxCalls == 2
MaxVal == 1

\* ---------------------------------------------------------------- values
None == <<>>
Some(x) == <<x>>

SeqsUpTo(S, n) == UNION {[1..k -> S] : k \in 0..n}

ScalarKinds == {"Counter", "IntGauge", "Gauge", "Histogram"}
VecKinds == {"IntCounterVec", "CounterVec", "GaugeVec", "IntGaugeVec", "HistogramVec"}
Kinds == ScalarKinds \cup VecKinds
HistogramKinds == {"Histogram", "HistogramVec"}

Names == {"m1", "m2", "m3", "0bad"}
Descs == {"help", ""}
LabelNames == {"l1", "l2"}
LabelLists == SeqsUpTo(LabelNames, MaxLabels)
BucketLists == SeqsUpTo(1..MaxBucket, MaxBucket)

\* the +Inf boundary the engine reports after the finite ones
Inf == 1000000

\* ---------------------------------------------------------------- errors
NoError == [tag |-> "None", msg |-> ""]
Msg(m) == [tag |-> "Msg", msg |-> m]
AlreadyReg == [tag |-> "AlreadyReg", msg |-> ""]

NoMetric == [kind |-> "", name |-> "", help |-> "", label_names |-> <<>>,
             is_vec |-> FALSE, upper_bounds |-> <<>>]
Ok(m) == [ok |-> TRUE, val |-> m, err |-> NoError]
Err(e) == [ok |-> FALSE, val |-> NoMetric, err |-> e]

\* ---------------------------------------------------------------- Opts
OptsNew(name, desc) ==
    [name |-> name, desc |-> desc, labels |-> None, buckets |-> None]

with_labels(o, labels) == [o EXCEPT !.labels = Some(labels)]

with_buckets(o, buckets) == [o EXCEPT !.buckets = Some(buckets)]

\* ---------------------------------------------------------------- engine
DEFAULT_BUCKETS == <<5, 10, 25, 50, 100, 250, 500, 1000, 2500, 5000, 10000>>

PrometheusOptsNew(name, help) == [name |-> name, help |-> help]

HistogramOptsNew(name, help) ==
    [name |-> name, help |-> help, buckets |-> DEFAULT_BUCKETS]

is_valid_metric_name(name) == name \notin {"", "0bad"}

\* Desc::new as the metric constructors run it
DescNew(name, help, labels) ==
    IF help = "" THEN Msg("empty help string")
    ELSE IF ~is_valid_metric_name(name) THEN Msg("not a valid metric name")
    ELSE IF \E i, j \in 1..Len(labels) : i # j /\ labels[i] = labels[j]
         THEN Msg("duplicate label names")
    ELSE NoError

\* check_and_adjust_buckets: empty means the default set; must be increasing
BucketsError(buckets) ==
    IF \E i \in 1..(Len(buckets) - 1) : buckets[i] >= buckets[i + 1]
    THEN Msg("histogram buckets must be in increasing order")
    ELSE NoError

AdjustBuckets(buckets) == IF buckets = <<>> THEN DEFAULT_BUCKETS ELSE buckets

\* the engine's constructor of one metric of `ident` with label dimensions
EngineNew(ident, prom_opts, labels, isVec) ==
    LET d == DescNew(prom_opts.name, prom_opts.help, labels)
        b == IF ident \in HistogramKinds
             THEN BucketsError(AdjustBuckets(prom_opts.buckets)) ELSE NoError
    IN  IF d # NoError THEN Err(d)
        ELSE IF b # NoError THEN Err(b)
        ELSE Ok([kind |-> ident, name |-> prom_opts.name, help |-> prom_opts.help,
                 label_names |-> labels, is_vec |-> isVec,
                 upper_bounds |-> IF ident \in HistogramKinds
                                  THEN AdjustBuckets(prom_opts.buckets) ELSE <<>>])

\* <$ident>::with_opts(opts)
WithOpts(ident, prom_opts) == EngineNew(ident, prom_opts, <<>>, FALSE)

\* <$ident>::new(opts, label_names)
VecNew(ident, prom_opts, labels) == EngineNew(ident, prom_opts, labels, TRUE)

\* the boundaries a histogram reports when collected
ReportedBuckets(m) == m.upper_bounds \o <<Inf>>

\* ---------------------------------------------------------------- converters
\* faulty variant: the buckets override is dropped
PromOptsNoOverride(usesBuckets, o) ==
    IF usesBuckets THEN HistogramOptsNew(o.name, o.desc)
    ELSE PrometheusOptsNew(o.name, o.desc)

\* let mut prom_opts = <$opts>::new(..); if let Some(param) = opts.$param {..}
PromOpts(usesBuckets, o) ==
    IF usesBuckets
    THEN LET p == HistogramOptsNew(o.name, o.desc)
         IN  IF o.buckets # None THEN [p EXCEPT !.buckets = o.buckets[1]] ELSE p
    ELSE PrometheusOptsNew(o.name, o.desc)

\* faulty variant: a scalar converter hands the labels to the engine
impl_try_from_labels(ident, usesBuckets, o) ==
    EngineNew(ident, PromOpts(usesBuckets, o),
              IF o.labels # None THEN o.labels[1] ELSE <<>>, FALSE)

impl_try_from(ident, usesBuckets, o) ==
    WithOpts(ident, PromOpts(usesBuckets, o))

VecLabelsError == Msg("vec requires one or more labels")

\* faulty variant: absent labels default to no label dimensions
impl_try_from_vec_default(ident, usesBuckets, o) ==
    VecNew(ident, PromOpts(usesBuckets, o),
           IF o.labels = None THEN <<>> ELSE o.labels[1])

impl_try_from_vec(ident, usesBuckets, o) ==
    LET prom_opts == PromOpts(usesBuckets, o)
    IN  IF o.labels = None THEN Err(VecLabelsError)
        ELSE VecNew(ident, prom_opts, o.labels[1])

\* the nine instantiations
try_from(ident, o) ==
    CASE ident = "Counter" -> impl_try_from(ident, FALSE, o)
      [] ident = "IntGauge" -> impl_try_from(ident, FALSE, o)
      [] ident = "Gauge" -> impl_try_from(ident, FALSE, o)
      [] ident = "Histogram" -> impl_try_from(ident, TRUE, o)
      [] ident = "IntCounterVec" -> impl_try_from_vec(ident, FALSE, o)
      [] ident = "CounterVec" -> impl_try_from_vec(ident, FALSE, o)
      [] ident = "GaugeVec" -> impl_try_from_vec(ident, FALSE, o)
      [] ident = "IntGaugeVec" -> impl_try_from_vec(ident, FALSE, o)
      [] ident = "HistogramVec" -> impl_try_from_vec(ident, TRUE, o)

\* ---------------------------------------------------------------- builder and conversion steps
NoDecl == <<>>
NoLast == [stage |-> "none", outcome |-> "none", err |-> NoError, at |-> 0,
           pre |-> {}, log |-> <<>>, ret |-> None]

InitConv ==
    /\ opts = None
    /\ conv = None
    /\ decl = NoDecl
    /\ heap = <<>>
    /\ registry = {}
    /\ container = None
    /\ last = NoLast
    /\ calls = 0

New ==
    \E name \in Names, desc \in Descs :
        /\ opts' = Some(OptsNew(name, desc))
        /\ conv' = None
        /\ UNCHANGED protoVars

WithLabels ==
    \E labels \in LabelLists :
        /\ opts # None
        /\ opts' = Some(with_labels(opts[1], labels))
        /\ UNCHANGED <<conv, protoVars>>

WithBuckets ==
    \E buckets \in BucketLists :
        /\ opts # None
        /\ opts' = Some(with_buckets(opts[1], buckets))
        /\ UNCHANGED <<conv, protoVars>>

TryFrom ==
    \E ident \in Kinds :
        /\ opts # None
        /\ conv' = Some([kind |-> ident, opts |-> opts[1], res |-> try_from(ident, opts[1])])
        /\ opts' = None
        /\ UNCHANGED protoVars

NextConv == New \/ WithLabels \/ WithBuckets \/ TryFrom

SpecConv == InitConv /\ [][NextConv]_vars

\* ---------------------------------------------------------------- engine: handles, registry, collection
LabelValues == {"a"}
\* the declarations a composite is drawn from: the kinds the crate's tests
\* declare, a labels attribute on vector fields only
FieldDecls ==
    [name : Names, desc : {"help"}, labels : {None}, buckets : {None},
     ty : {"Gauge", "Histogram", "GaugeVec"}]
    \cup [name : Names, desc : {"help"}, labels : {Some(<<"l1">>)}, buckets : {None},
          ty : {"GaugeVec"}]
Decls == UNION {[1..n -> FieldDecls] : n \in 1..MaxFields}

EmptyFn == [k \in {} |-> 0]

\* a freshly constructed metric: a scalar has its one series, a vector none yet
NewMetric(m) ==
    [desc |-> m, children |-> IF m.is_vec THEN EmptyFn ELSE (<<>> :> 0)]

\* faulty variant: cloning copies the metric's state into a new object
CloneDeep(h, id) == [heap |-> Append(h, h[id]), id |-> Len(h) + 1]

\* $metric_name.clone(): a handle to the same underlying state
Clone(h, id) == [heap |-> h, id |-> id]

RegisteredNames(reg, h) == {h[c].desc.name : c \in reg}

\* Registry::register: a name already present is rejected
RegistryRegister(reg, h, id) ==
    IF h[id].desc.name \in RegisteredNames(reg, h)
    THEN [ok |-> FALSE, registry |-> reg, err |-> AlreadyReg]
    ELSE [ok |-> TRUE, registry |-> reg \cup {id}, err |-> NoError]

MetricType(kind) ==
    CASE kind \in {"Counter", "IntCounterVec", "CounterVec"} -> "counter"
      [] kind \in {"Gauge", "IntGauge", "GaugeVec", "IntGaugeVec"} -> "gauge"
      [] kind \in HistogramKinds -> "histogram"

\* Registry::gather: one family per registered collector that has samples
Gather(reg, h) ==
    {[name |-> h[c].desc.name, help |-> h[c].desc.help,
      type |-> MetricType(h[c].desc.kind), samples |-> h[c].children] :
        c \in {x \in reg : DOMAIN h[x].children # {}}}

\* ---------------------------------------------------------------- composite_metric!
\* faulty variant: name and description handed to Opts::new in the wrong order
FieldOptsSwapped(f) ==
    LET o0 == OptsNew(f.desc, f.name)
        o1 == IF f.labels # None THEN with_labels(o0, f.labels[1]) ELSE o0
    IN  IF f.buckets # None THEN with_buckets(o1, f.buckets[1]) ELSE o1

FieldOpts(f) ==
    LET o0 == OptsNew(f.name, f.desc)
        o1 == IF f.labels # None THEN with_labels(o0, f.labels[1]) ELSE o0
    IN  IF f.buckets # None THEN with_buckets(o1, f.buckets[1]) ELSE o1

\* opts.try_into(): the blanket TryInto over the TryFrom impls
try_into(ty, o) == try_from(ty, o)

Event(op, i, ok) == [op |-> op, field |-> i, ok |-> ok]

\* faulty variant: a failed registration is ignored and the loop goes on
RegisterFieldKeepGoing(d, i, st) ==
    LET r == try_into(d[i].ty, FieldOpts(d[i]))
    IN  IF ~r.ok
        THEN [st EXCEPT !.stage = "convert", !.outcome = "Panic", !.err = r.err,
                        !.at = i, !.log = Append(@, Event("construct", i, FALSE))]
        ELSE LET h2 == Append(st.heap, NewMetric(r.val))
                 id == Len(h2)
                 rr == RegistryRegister(st.registry, h2, id)
             IN  [st EXCEPT !.heap = h2, !.registry = rr.registry,
                            !.fields = Append(@, id),
                            !.log = Append(Append(@, Event("construct", i, TRUE)),
                                           Event("register", i, rr.ok))]

\* faulty variant: a failed registration unregisters what this call had registered
RegisterFieldRollback(d, i, st) ==
    LET r == try_into(d[i].ty, FieldOpts(d[i]))
    IN  IF ~r.ok
        THEN [st EXCEPT !.stage = "convert", !.outcome = "Panic", !.err = r.err,
                        !.at = i, !.log = Append(@, Event("construct", i, FALSE))]
        ELSE LET h2 == Append(st.heap, NewMetric(r.val))
                 id == Len(h2)
                 rr == RegistryRegister(st.registry, h2, id)
                 lg == Append(st.log, Event("construct", i, TRUE))
             IN  IF ~rr.ok
                 THEN [st EXCEPT !.stage = "register", !.outcome = "Err",
                                 !.err = rr.err, !.at = i,
                                 !.registry = @ \ {st.fields[j] : j \in 1..Len(st.fields)},
                                 !.log = Append(lg, Event("register", i, FALSE))]
                 ELSE [st EXCEPT !.heap = h2, !.registry = rr.registry,
                                 !.fields = Append(@, id),
                                 !.log = Append(lg, Event("register", i, TRUE))]

\* one repetition of the $( ... )+ body of register for field i
RegisterField(d, i, st) ==
    LET r == try_into(d[i].ty, FieldOpts(d[i]))
    IN  IF ~r.ok
        THEN \* .unwrap() on Err panics
             [st EXCEPT !.stage = "convert", !.outcome = "Panic", !.err = r.err,
                        !.at = i, !.log = Append(@, Event("construct", i, FALSE))]
        ELSE LET h2 == Append(st.heap, NewMetric(r.val))
                 id == Len(h2)
                 c == Clone(h2, id)
                 rr == RegistryRegister(st.registry, c.heap, c.id)
                 lg == Append(st.log, Event("construct", i, TRUE))
             IN  IF ~rr.ok
                 THEN \* `?` returns the registry's error; the new metric is dropped
                      [st EXCEPT !.stage = "register", !.outcome = "Err",
                                 !.err = rr.err, !.at = i,
                                 !.log = Append(lg, Event("register", i, FALSE))]
                 ELSE [st EXCEPT !.heap = c.heap, !.registry = rr.registry,
                                 !.fields = Append(@, id),
                                 !.log = Append(lg, Event("register", i, TRUE))]

\* faulty variant: a failed call hands back the fields built so far
RECURSIVE RegisterFieldsPartial(_, _, _)
RegisterFieldsPartial(d, i, st) ==
    IF st.stage # "running" THEN [st EXCEPT !.ret = Some(st.fields)]
    ELSE IF i > Len(d)
         THEN [st EXCEPT !.stage = "done", !.outcome = "Ok", !.ret = Some(st.fields)]
         ELSE RegisterFieldsPartial(d, i + 1, RegisterField(d, i, st))

RECURSIVE RegisterFields(_, _, _)
RegisterFields(d, i, st) ==
    IF st.stage # "running" THEN st
    ELSE IF i > Len(d)
         THEN [st EXCEPT !.stage = "done", !.outcome = "Ok", !.ret = Some(st.fields)]
         ELSE RegisterFields(d, i + 1, RegisterField(d, i, st))

register(d, reg, h) ==
    RegisterFields(d, 1, [stage |-> "running", outcome |-> "none", err |-> NoError,
                          at |-> 0, heap |-> h, registry |-> reg, fields |-> <<>>,
                          log |-> <<>>, ret |-> None])

\* fn $metric_name(&self) -> &$metric_ty
Accessor(c, i) == c[i]

\* ---------------------------------------------------------------- protocol steps
OtherMetric(name) ==
    NewMetric([kind |-> "Gauge", name |-> name, help |-> "other", label_names |-> <<>>,
               is_vec |-> FALSE, upper_bounds |-> <<>>])

Init ==
    /\ opts = None
    /\ conv = None
    /\ decl \in Decls
    /\ \E prior \in {<<>>, <<OtherMetric("m2")>>} :
          /\ heap = prior
          /\ registry = DOMAIN prior
    /\ container = None
    /\ last = NoLast
    /\ calls = 0

Register ==
    /\ calls < MaxCalls
    /\ LET r == register(decl, registry, heap)
       IN  /\ heap' = r.heap
           /\ registry' = r.registry
           /\ container' = IF r.ret # None THEN r.ret ELSE container
           /\ last' = [stage |-> r.stage, outcome |-> r.outcome, err |-> r.err,
                       at |-> r.at, pre |-> registry, log |-> r.log, ret |-> r.ret]
    /\ calls' = calls + 1
    /\ UNCHANGED <<decl, convVars>>

Keys(m) == [1..Len(m.label_names) -> LabelValues]

\* with_label_values resolves (creating at zero when new) the child of a vector
Value(obj, key) == IF key \in DOMAIN obj.children THEN obj.children[key] ELSE 0

Store(h, id, key, v) ==
    [h EXCEPT ![id].children = (key :> v) @@ @]

Inc ==
    /\ container # None
    /\ \E i \in 1..Len(container[1]) :
         LET id == Accessor(container[1], i)
         IN  /\ MetricType(heap[id].desc.kind) \in {"counter", "gauge"}
             /\ \E key \in Keys(heap[id].desc) :
                  /\ Value(heap[id], key) < MaxVal
                  /\ heap' = Store(heap, id, key, Value(heap[id], key) + 1)
    /\ UNCHANGED <<decl, registry, container, last, calls, convVars>>

Set ==
    /\ container # None
    /\ \E i \in 1..Len(container[1]), v \in 0..MaxVal :
         LET id == Accessor(container[1], i)
         IN  /\ MetricType(heap[id].desc.kind) = "gauge"
             /\ \E key \in Keys(heap[id].desc) :
                  heap' = Store(heap, id, key, v)
    /\ UNCHANGED <<decl, registry, container, last, calls, convVars>>

\* the modelled state of a histogram series is its sample count
Observe ==
    /\ container # None
    /\ \E i \in 1..Len(container[1]) :
         LET id == Accessor(container[1], i)
         IN  /\ MetricType(heap[id].desc.kind) = "histogram"
             /\ \E key \in Keys(heap[id].desc) :
                  /\ Value(heap[id], key) < MaxVal
                  /\ heap' = Store(heap, id, key, Value(heap[id], key) + 1)
    /\ UNCHANGED <<decl, registry, container, last, calls, convVars>>

Next == Register \/ Inc \/ Set \/ Observe

Spec == Init /\ [][Next]_vars

\* ---------------------------------------------------------------- converter properties (SpecConv)
Converted == conv # None
ConvKind == conv[1].kind
ConvOpts == conv[1].opts
ConvRes == conv[1].res

StrictlyIncreasing(b) == \A i \in 1..(Len(b) - 1) : b[i] < b[i + 1]

\* C4 as stated: every vector kind converting an Options Value without labels
\* fails with the message "vector requires one or more labels".
C4_VectorMessage ==
    (Converted /\ ConvKind \in VecKinds /\ ConvOpts.labels = None)
        => ConvRes = Err(Msg("vector requires one or more labels"))

\* C4 amended: every vector kind converting an Options Value without labels
\* fails with Msg("vec requires one or more labels"), whatever the name,
\* description and buckets are, and constructs no metric.
C4_VecWithoutLabelsFails ==
    (Converted /\ ConvKind \in VecKinds /\ ConvOpts.labels = None)
        => /\ ~ConvRes.ok
           /\ ConvRes.val = NoMetric
           /\ ConvRes.err = [tag |-> "Msg", msg |-> "vec requires one or more labels"]

\* a HistogramVec without labels whose name, description and buckets the
\* engine would each reject
C4_Witness ==
    /\ Converted
    /\ ConvKind = "HistogramVec"
    /\ ConvOpts = [name |-> "0bad", desc |-> "", labels |-> None,
                   buckets |-> Some(<<2, 1>>)]

\* C5: a scalar kind converts an Options Value with labels exactly as it
\* converts the same value without them, and a resulting metric has no label
\* dimensions.
C5_ScalarIgnoresLabels ==
    (Converted /\ ConvKind \in ScalarKinds)
        => /\ ConvRes = try_from(ConvKind, [ConvOpts EXCEPT !.labels = None])
           /\ ConvRes.ok => (ConvRes.val.label_names = <<>> /\ ~ConvRes.val.is_vec)
           /\ ConvRes.err # [tag |-> "Msg", msg |-> "vec requires one or more labels"]

\* a scalar built from options carrying a label list a vector would reject
C5_Witness ==
    /\ Converted
    /\ ConvKind \in ScalarKinds
    /\ ConvOpts.labels = Some(<<"l1", "l1">>)
    /\ ConvRes.ok

\* C6: a histogram kind given strictly increasing buckets b reports exactly
\* b followed by +Inf (and the buckets never make an otherwise accepted
\* conversion fail); given no buckets it has the engine's default set; a
\* non-histogram kind converts as if the buckets were absent.
C6_HistogramBuckets ==
    Converted =>
        LET b == ConvOpts.buckets
            plain == try_from(ConvKind, [ConvOpts EXCEPT !.buckets = None])
        IN  /\ (ConvKind \in HistogramKinds /\ b # None /\ b[1] # <<>>
                    /\ StrictlyIncreasing(b[1]))
                 => /\ ConvRes.ok = plain.ok
                    /\ ConvRes.ok => ReportedBuckets(ConvRes.val) = Append(b[1], Inf)
            /\ (ConvKind \in HistogramKinds /\ b = None /\ ConvRes.ok)
                 => ConvRes.val.upper_bounds = DEFAULT_BUCKETS
            /\ ConvKind \notin HistogramKinds => ConvRes = plain

\* a HistogramVec built with two boundaries
C6_Witness ==
    /\ Converted
    /\ ConvKind = "HistogramVec"
    /\ ConvOpts.buckets = Some(<<1, 2>>)
    /\ ConvRes.ok
    /\ ReportedBuckets(ConvRes.val) = <<1, 2, Inf>>

\* C9 as stated: no vector converter yields a metric from a label list that is
\* present but empty, so every vector metric is built from a non-empty list.
C9_VecLabelsNonEmpty ==
    (Converted /\ ConvKind \in VecKinds /\ ConvRes.ok)
        => (ConvOpts.labels # None /\ ConvOpts.labels[1] # <<>>)

\* ---------------------------------------------------------------- register properties (Spec)
N == Len(decl)
FullLog(n) ==
    [j \in 1..(2 * n) |->
        Event(IF j % 2 = 1 THEN "construct" ELSE "register", (j + 1) \div 2, TRUE)]
DeclNames(k) == {decl[j].name : j \in 1..k}
Families == Gather(registry, heap)
ContainerIds == {container[1][i] : i \in 1..Len(container[1])}

\* C1 as stated: when the converter of field k fails, register returns that
\* converter's error as its error result.
C1_ConverterErrorReturned ==
    last.stage = "convert"
        => /\ last.outcome = "Err"
           /\ last.err = try_from(decl[last.at].ty, FieldOpts(decl[last.at])).err

\* C2: when registering field k fails, register returns the registry's error,
\* the registry holds its prior contents plus f1..f(k-1), and nothing after
\* the failed registration of fk is constructed or registered.
C2_RegistrationFailure ==
    last.stage = "register"
        => LET k == last.at
           IN  /\ last.outcome = "Err"
               /\ last.err = [tag |-> "AlreadyReg", msg |-> ""]
               /\ last.ret = None
               /\ decl[k].name \in RegisteredNames(last.pre, heap) \cup DeclNames(k - 1)
               /\ last.pre \subseteq registry
               /\ Cardinality(registry) = Cardinality(last.pre) + (k - 1)
               /\ RegisteredNames(registry, heap)
                    = RegisteredNames(last.pre, heap) \cup DeclNames(k - 1)
               /\ last.log = FullLog(k - 1) \o <<Event("construct", k, TRUE),
                                                 Event("register", k, FALSE)>>

\* the second of three fields collides with a metric registered beforehand
C2_Witness ==
    /\ last.stage = "register"
    /\ last.at = 2
    /\ N = 3
    /\ last.pre # {}
    /\ calls = 1

\* C3: a container is returned only after every field was constructed and
\* then registered, field by field in declaration order; a call in which a
\* construction or registration failed returns none.
C3_ContainerOnlyAfterAll ==
    /\ last.ret # None
         => /\ last.log = FullLog(N)
            /\ Len(last.ret[1]) = N
            /\ \A i \in 1..N :
                 /\ last.ret[1][i] \in registry
                 /\ heap[last.ret[1][i]].desc.name = decl[i].name
                 /\ heap[last.ret[1][i]].desc.kind = decl[i].ty
            /\ \A i, j \in 1..N : i < j => last.ret[1][i] < last.ret[1][j]
    /\ \A j \in 1..Len(last.log) :
         /\ last.log[j].op = FullLog(N)[j].op
         /\ last.log[j].field = FullLog(N)[j].field
         /\ ~last.log[j].ok => (j = Len(last.log) /\ last.ret = None)
    /\ (last.stage \in {"convert", "register"} \/ last.outcome # "Ok") => last.ret = None
    /\ container # None => (calls >= 1 /\ Len(container[1]) = N)

\* a three-field composite returned by a call
C3_Witness ==
    /\ last.ret # None
    /\ N = 3
    /\ last.log = FullLog(3)

\* C7: an update through the accessor of field f changes what the registry
\* collects for the series of f's declared name, which is the state of the
\* container's handle, and changes no other series.
C7_SharedState ==
    [][(container # None /\ calls' = calls /\ heap' # heap)
        => \E i \in 1..Len(container[1]) :
             LET id == Accessor(container[1], i)
                 n == decl[i].name
                 before == Gather(registry, heap)
                 after == Gather(registry', heap')
             IN  /\ heap'[id] # heap[id]
                 /\ \E g \in after : g.name = n /\ g.samples = heap'[id].children
                 /\ ~\E g \in before : g.name = n /\ g.samples = heap'[id].children
                 /\ {g \in before : g.name # n} = {g \in after : g.name # n}]_vars

\* two fields registered, the first updated, the second untouched
C7_Witness ==
    /\ container # None
    /\ N >= 2
    /\ heap[container[1][1]].children = (<<>> :> 1)
    /\ heap[container[1][2]].children = (<<>> :> 0)
    /\ \E g \in Families : g.name = decl[1].name /\ g.samples = (<<>> :> 1)

\* C8 as stated: N fields registered against an empty registry collect as
\* exactly N series with the declared names and descriptions, before or
\* after any observation.
C8_ExactlyNSeries ==
    (container # None /\ registry = ContainerIds)
        => /\ Cardinality(Families) = N
           /\ \A i \in 1..N :
                \E g \in Families : g.name = decl[i].name /\ g.help = decl[i].desc

\* C8 amended: all N fields are registered under their declared names, and the
\* collection holds exactly one series per scalar field and per vector field
\* with at least one resolved label combination, each with the declared name
\* and description; a vector field with no child yet contributes none.
C8_SeriesOfLiveFields ==
    (container # None /\ registry = ContainerIds)
        => LET live == {i \in 1..N : decl[i].ty \in ScalarKinds
                                      \/ heap[container[1][i]].children # EmptyFn}
           IN  /\ Cardinality(registry) = N
               /\ RegisteredNames(registry, heap) = DeclNames(N)
               /\ Cardinality(DeclNames(N)) = N
               /\ Cardinality(Families) = Cardinality(live)
               /\ \A i \in live :
                    \E g \in Families : g.name = decl[i].name /\ g.help = decl[i].desc
               /\ \A g \in Families :
                    \E i \in live : g.name = decl[i].name /\ g.help = decl[i].desc

\* a scalar and a vector among three fields, all three collected
C8_Witness ==
    /\ container # None
    /\ registry = ContainerIds
    /\ N = 3
    /\ \E i, j \in 1..N : decl[i].ty \in ScalarKinds /\ decl[j].ty \in VecKinds
    /\ Cardinality(Families) = 3

\* C10: register called again after it succeeded on the registry fails with
\* the registry's conflict error at the first field, leaves the registry as
\* it was, and the first container and its metrics' state are untouched.
C10_SecondRegisterFails ==
    [][(container # None /\ calls' = calls + 1)
        => /\ last'.stage = "register"
           /\ last'.outcome = "Err"
           /\ last'.err = [tag |-> "AlreadyReg", msg |-> ""]
           /\ last'.at = 1
           /\ last'.ret = None
           /\ registry' = registry
           /\ container' = container
           /\ \A i \in 1..Len(container[1]) :
                heap'[container[1][i]] = heap[container[1][i]]]_vars

\* after the failed second call the first container's metric still holds its value
C10_Witness ==
    /\ container # None
    /\ calls = 2
    /\ last.outcome = "Err"
    /\ last.at = 1
    /\ ContainerIds \subseteq registry
    /\ \E i \in 1..N : heap[container[1][i]].children = (<<>> :> 1)

====
